---- MODULE Spec2Model ----
(***************************************************************************)
(* Car Hub server (src/index.js): an Express application over two MongoDB  *)
(* collections, products and imports.  Every request is an asynchronous    *)
(* task that suspends at each await; one action below is one run of a      *)
(* handler between two suspension points, and every storage call is        *)
(* executed atomically by the database inside the action that issues it.   *)
(***************************************************************************)
EXTENDS Integers, FiniteSets, Sequences, TLC

\* ------------------------------------------------------------- bounds
\* Number of request slots of the concurrent specification.
MaxReq == 2
\* Number of request slots of the sequential specification.
MaxSeq == 3
\* Largest stock a product starts with.
MaxStock == 2
\* Largest importQuantity a request body carries.
MaxQty == 2
\* Documents in a seeded imports collection.
MaxDocs == 3

\* ------------------------------------------------------------- values
Users == {"u1", "u2"}
\* ObjectIds of the products collection; p2 is not yet allocated in Init.
PIDS == {"p1", "p2"}
\* What a request can send as a product id: a well-formed id or "not-an-id".
IdInputs == PIDS \cup {"not-an-id"}

\* A JavaScript number: an integer or NaN.
Num(n) == [nan |-> FALSE, v |-> n]
NaN == [nan |-> TRUE, v |-> 0]
IsNum(x) == ~x.nan

\* JavaScript / BSON double arithmetic: NaN propagates, comparisons with NaN
\* are false.
JSAdd(a, b) == IF a.nan \/ b.nan THEN NaN ELSE Num(a.v + b.v)
JSNeg(a) == IF a.nan THEN NaN ELSE Num(0 - a.v)
JSLess(a, b) == ~a.nan /\ ~b.nan /\ a.v < b.v
JSGreater(a, b) == ~a.nan /\ ~b.nan /\ a.v > b.v
JSStrictEq(a, b) == ~a.nan /\ ~b.nan /\ a.v = b.v

\* The ObjectIds insertOne hands out, in the order it hands them out, and the
\* time new Date() stamps on the document that gets the id: later ids carry
\* later times.
CatalogSeq == <<"p1", "p2", "p3", "p4", "p5", "p6", "p7">>
CatalogIds == {CatalogSeq[i] : i \in 1..Len(CatalogSeq)}
createdAt(p) == CHOOSE i \in 1..Len(CatalogSeq) : CatalogSeq[i] = p

\* A JSON value of the request body field importQuantity: a number, a string
\* that is not numeric ("abc"), or the field is absent (undefined).
JNumber(n) == [t |-> "number", n |-> n]
JText == [t |-> "string", n |-> 0]
JUndefined == [t |-> "undefined", n |-> 0]
QtyBodies == {JNumber(n) : n \in 0..MaxQty} \cup {JText, JUndefined}

\* const { productId, importQuantity = 1 } = req.body: the default applies to
\* an absent field only.
importQuantityOf(body) == IF body.t = "undefined" THEN JNumber(1) ELSE body

\* Number(importQuantity): a non-numeric string converts to NaN.
Number(x) == IF x.t = "number" THEN Num(x.n) ELSE NaN

\* ObjectId.isValid: "not-an-id" is neither 24 hex digits nor 12 bytes.
ObjectIdIsValid(id) == id \in PIDS

\* ------------------------------------------------------------- state
VARIABLES
  products,   \* products collection: id -> document, or its absence
  imports,    \* imports collection: a set of documents, each with its own _id
  db,         \* the module-level handle db: TRUE once set
  clients,    \* MongoClient instances whose connect() has succeeded
  reqs,       \* the request tasks: parameters, position, locals, response
  initialStock \* history: the availableQuantity each product entered the catalog with

vars == <<products, imports, db, clients, reqs, initialStock>>

\* products[p].state: "unused" (id never allocated), "live" (document
\* present), "deleted" (document removed; ObjectIds are never reused).
NoProduct(s) == [state |-> s, availableQuantity |-> Num(0), createdBy |-> "none"]
ProductDoc(q, owner) == [state |-> "live", availableQuantity |-> q, createdBy |-> owner]
Live(p) == products[p].state = "live"

NoRec == [id |-> 0, userEmail |-> "none", productId |-> "none", importedQuantity |-> Num(0)]
NoDoc == NoProduct("unused")

Routes == {"import", "withdraw", "myImports", "postProduct", "myExports",
           "patchProduct", "deleteProduct"}
ReservationRoutes == {"import", "withdraw", "myImports"}

\* Authorization header: absent, not starting with "Bearer ", a bearer token
\* the identity provider rejects, or a bearer token verified as a user.
AuthInputs == {"none", "basic", "rejected"} \cup Users

\* req.body of POST /products and PATCH /products/:id: the fields of a product
\* it carries ("absent": the body has no createdBy field).
Body(hasQty, q, owner) ==
  [hasQty |-> hasQty, availableQuantity |-> q, createdBy |-> owner]
NoPatch == Body(FALSE, Num(0), "absent")
PostBodies == {Body(TRUE, Num(1), c) : c \in {"absent", "u2"}}
PatchBodies == {Body(TRUE, Num(0), "absent"), Body(FALSE, Num(0), "u2")}

Idle == [route |-> "none", auth |-> "none", id |-> "none", qty |-> JUndefined,
         patch |-> NoPatch, pc |-> "idle", user |-> "none", status |-> 0,
         success |-> FALSE, message |-> "none", product |-> NoDoc,
         existing |-> NoRec, rows |-> {}, list |-> {}, latest |-> <<>>,
         search |-> "none", sent |-> 0, acc |-> {}]

Slots == DOMAIN reqs
InFlight(r) == reqs[r].pc \notin {"idle", "done"}

\* A new request: its route and inputs.  Fields a route does not read keep
\* their default value.
NewRequest(route, auth, id, qty, patch) ==
  [Idle EXCEPT !.route = route, !.auth = auth, !.id = id, !.qty = qty,
               !.patch = patch, !.pc = "auth"]

RequestsOf(route) ==
  CASE route = "import" ->
         {NewRequest(route, a, i, q, NoPatch) :
            a \in AuthInputs, i \in IdInputs, q \in QtyBodies}
    [] route \in {"withdraw", "deleteProduct"} ->
         {NewRequest(route, a, i, JUndefined, NoPatch) :
            a \in AuthInputs, i \in IdInputs}
    [] route = "patchProduct" ->
         {NewRequest(route, a, i, JUndefined, b) :
            a \in AuthInputs, i \in IdInputs, b \in PatchBodies}
    [] route = "postProduct" ->
         {NewRequest(route, a, "none", JUndefined, b) :
            a \in AuthInputs, b \in PostBodies}
    [] OTHER ->
         {NewRequest(route, a, "none", JUndefined, NoPatch) : a \in AuthInputs}

\* The routes that take no token, and req.query.search of GET /search.
PublicRoutes == {"root", "health", "products", "search"}
SearchInputs == {"", "p1"}

NewPublicRequest(route, search) ==
  [Idle EXCEPT !.route = route, !.search = search, !.pc = "handler"]

PublicRequests ==
  {NewPublicRequest(route, "none") : route \in PublicRoutes \ {"search"}}
    \cup {NewPublicRequest("search", q) : q \in SearchInputs}

\* res.status(code).json({success, message}): the response ends the task.
\* sent counts the responses written for the request.
Respond(r, code, ok, msg) ==
  [reqs EXCEPT ![r].status = code, ![r].success = ok, ![r].message = msg,
               ![r].sent = @ + 1, ![r].pc = "done"]

\* Mutant of OnError: the catch block rethrows and writes no response.
OnErrorRethrows(r) ==
  [reqs EXCEPT ![r].pc = "crashed", ![r].acc = @ \cup {"failed"}]

\* catch (error) { res.status(500).json({ success: false }) } of a handler
\* whose awaited storage call has rejected.
OnError(r) ==
  [Respond(r, 500, FALSE, "none") EXCEPT ![r].acc = @ \cup {"failed"}]

\* ---------------------------------------------------- verifyToken (62-75)
\* auth?.startsWith('Bearer ')
HasBearer(auth) == auth \notin {"none", "basic"}
\* Mutant of TokenVerifies: the catch block of verifyToken calls next().
TokenVerifiesAlways(auth) == TRUE

\* adminApp.auth().verifyIdToken(token) resolves for a valid token and throws
\* for any other.
TokenVerifies(auth) == auth \in Users

VerifyToken(r) ==
  /\ reqs[r].pc = "auth"
  /\ IF ~HasBearer(reqs[r].auth)
        THEN reqs' = Respond(r, 401, FALSE, "No token")
        ELSE IF TokenVerifies(reqs[r].auth)
               THEN reqs' = [reqs EXCEPT ![r].user = reqs[r].auth,
                                         ![r].pc = "handler"]
               ELSE reqs' = Respond(r, 401, FALSE, "Invalid token")
  /\ UNCHANGED <<products, imports, db, clients, initialStock>>

\* ------------------------------------------------------ connectDB (30-59)
\* The routes that check ObjectId.isValid before they call connectDB.
ValidatesBeforeConnect(route) ==
  route \in {"withdraw", "deleteProduct", "patchProduct"}

\* Where a handler continues once connectDB has resolved.
AfterConnect(route) ==
  CASE route = "import" -> "findProduct"
    [] route = "withdraw" -> "findImport"
    [] OTHER -> "op"

\* GET / answers with no storage call; GET /search answers [] when
\* req.query.search?.trim() is empty (292), before connectDB.
RespondsAtOnce(r) ==
  \/ reqs[r].route = "root"
  \/ reqs[r].route = "search" /\ reqs[r].search = ""

\* The handler from its entry to its first suspension: the id check of the
\* routes that make it first, then connectDB up to `await client.connect()`.
\* With db set connectDB returns the memoized handle.
EnterHandler(r) ==
  /\ reqs[r].pc = "handler"
  /\ IF RespondsAtOnce(r)
        THEN reqs' = Respond(r, 200, TRUE, "none")
     ELSE IF ValidatesBeforeConnect(reqs[r].route) /\ ~ObjectIdIsValid(reqs[r].id)
        THEN reqs' = Respond(r, 400, FALSE, "none")
        ELSE IF db
               THEN reqs' = [reqs EXCEPT ![r].pc = AfterConnect(reqs[r].route)]
               ELSE reqs' = [reqs EXCEPT ![r].pc = "connecting",
                                         ![r].acc = @ \cup {"connect"}]
  /\ UNCHANGED <<products, imports, db, clients, initialStock>>

\* client.connect() has resolved: db and the two collection handles are set.
ConnectDone(r) ==
  /\ reqs[r].pc = "connecting"
  /\ db' = TRUE
  /\ clients' = clients + 1
  /\ reqs' = [reqs EXCEPT ![r].pc = AfterConnect(reqs[r].route)]
  /\ UNCHANGED <<products, imports, initialStock>>

\* ------------------------------------------- storage calls on the collections
\* Mutant of ImportsOf: the filter leaves userEmail out.
ImportsOfAnyUser(user, pid) == {d \in imports : d.productId = pid}

\* findOne({userEmail, productId}) on imports: the documents it may return.
ImportsOf(user, pid) ==
  {d \in imports : d.userEmail = user /\ d.productId = pid}

\* updateOne({_id}, {$inc: {importedQuantity: delta}}) on imports.
IncImported(id, delta) ==
  {IF d.id = id
     THEN [d EXCEPT !.importedQuantity = JSAdd(@, delta)]
     ELSE d : d \in imports}

\* Mutant of IncAvailable: the stock is only ever taken from.
IncAvailableDownOnly(pid, delta) ==
  IF Live(pid) /\ JSLess(delta, Num(0))
    THEN [products EXCEPT ![pid].availableQuantity = JSAdd(@, delta)]
    ELSE products

\* updateOne({_id}, {$inc: {availableQuantity: delta}}) on products: no
\* document matches an id that is not in the collection.
IncAvailable(pid, delta) ==
  IF Live(pid)
    THEN [products EXCEPT ![pid].availableQuantity = JSAdd(@, delta)]
    ELSE products

\* ------------------------------------------- POST /import-product (167-211)
\* !ObjectId.isValid(productId) || qty < 1
ImportInvalid(id, qty) == ~ObjectIdIsValid(id) \/ JSLess(qty, Num(1))
\* Mutant of StockInsufficient: the guard compares with >= one unit too late.
StockInsufficientOffByOne(pid, qty) ==
  ~Live(pid) \/ JSGreater(qty, JSAdd(products[pid].availableQuantity, Num(1)))

\* !product || qty > product.availableQuantity
StockInsufficient(pid, qty) ==
  ~Live(pid) \/ JSGreater(qty, products[pid].availableQuantity)

qtyOf(r) == Number(importQuantityOf(reqs[r].qty))

ImportFindProduct(r) ==
  /\ reqs[r].pc = "findProduct"
  /\ IF ImportInvalid(reqs[r].id, qtyOf(r))
        THEN reqs' = Respond(r, 400, FALSE, "none")
        ELSE IF StockInsufficient(reqs[r].id, qtyOf(r))
               THEN reqs' = [Respond(r, 400, FALSE, "Stock insufficient")
                               EXCEPT ![r].product = products[reqs[r].id],
                                      ![r].acc = @ \cup {"read"}]
               ELSE reqs' = [reqs EXCEPT ![r].product = products[reqs[r].id],
                                         ![r].acc = @ \cup {"read"},
                                         ![r].pc = "findExisting"]
  /\ UNCHANGED <<products, imports, db, clients, initialStock>>

ImportFindExisting(r) ==
  /\ reqs[r].pc = "findExisting"
  /\ \E d \in ImportsOf(reqs[r].user, reqs[r].id) \cup {NoRec} :
       /\ d = NoRec => ImportsOf(reqs[r].user, reqs[r].id) = {}
       /\ reqs' = [reqs EXCEPT ![r].existing = d, ![r].pc = "writeLedger"]
  /\ UNCHANGED <<products, imports, db, clients, initialStock>>

\* Mutant of ImportLedger: every Import inserts a record of its own.
ImportLedgerAlwaysInserts(r) ==
  imports \cup {[id |-> r, userEmail |-> reqs[r].user,
                 productId |-> reqs[r].id, importedQuantity |-> qtyOf(r)]}

\* The ledger write of an Import: $inc on the record read, or insertOne.  The
\* _id of an inserted record is new; the slot of the inserting request names it.
ImportLedger(r) ==
  IF reqs[r].existing # NoRec
    THEN IncImported(reqs[r].existing.id, qtyOf(r))
    ELSE imports \cup {[id |-> r, userEmail |-> reqs[r].user,
                        productId |-> reqs[r].id, importedQuantity |-> qtyOf(r)]}

ImportWriteLedger(r) ==
  /\ reqs[r].pc = "writeLedger"
  /\ imports' = ImportLedger(r)
  /\ reqs' = [reqs EXCEPT ![r].pc = "updateStock", ![r].acc = @ \cup {"write"}]
  /\ UNCHANGED <<products, db, clients, initialStock>>

ImportUpdateStock(r) ==
  /\ reqs[r].pc = "updateStock"
  /\ products' = IncAvailable(reqs[r].id, JSNeg(qtyOf(r)))
  /\ reqs' = Respond(r, 200, TRUE, "none")
  /\ UNCHANGED <<imports, db, clients, initialStock>>

\* --------------------------- DELETE /my-imports/product/:productId (255-286)
WithdrawFindImport(r) ==
  /\ reqs[r].pc = "findImport"
  /\ \E d \in ImportsOf(reqs[r].user, reqs[r].id) \cup {NoRec} :
       /\ d = NoRec => ImportsOf(reqs[r].user, reqs[r].id) = {}
       /\ IF d = NoRec
            THEN reqs' = [Respond(r, 404, FALSE, "none")
                            EXCEPT ![r].acc = @ \cup {"read"}]
            ELSE reqs' = [reqs EXCEPT ![r].existing = d,
                                      ![r].acc = @ \cup {"read"},
                                      ![r].pc = "withdrawLedger"]
  /\ UNCHANGED <<products, imports, db, clients, initialStock>>

\* Mutant of WithdrawLedger: a Withdraw gives up the whole record.
WithdrawLedgerWhole(importDoc) == {d \in imports : d.id # importDoc.id}

\* Mutant of WithdrawLedger: a Withdraw never deletes, it decrements to 0.
WithdrawLedgerNeverDeletes(importDoc) == IncImported(importDoc.id, Num(-1))

\* importDoc.importedQuantity === 1 ? deleteOne({_id}) : $inc by -1
WithdrawLedger(importDoc) ==
  IF JSStrictEq(importDoc.importedQuantity, Num(1))
    THEN {d \in imports : d.id # importDoc.id}
    ELSE IncImported(importDoc.id, Num(-1))

WithdrawWriteLedger(r) ==
  /\ reqs[r].pc = "withdrawLedger"
  /\ imports' = WithdrawLedger(reqs[r].existing)
  /\ reqs' = [reqs EXCEPT ![r].pc = "withdrawStock", ![r].acc = @ \cup {"write"}]
  /\ UNCHANGED <<products, db, clients, initialStock>>

WithdrawUpdateStock(r) ==
  /\ reqs[r].pc = "withdrawStock"
  /\ products' = IncAvailable(reqs[r].id, Num(1))
  /\ reqs' = Respond(r, 200, TRUE, "none")
  /\ UNCHANGED <<imports, db, clients, initialStock>>

\* ------------------------------------------------- GET /my-imports (214-252)
RECURSIVE SumImported(_)
\* $sum of importedQuantity over a group of documents
SumImported(S) ==
  IF S = {} THEN Num(0)
  ELSE LET d == CHOOSE x \in S : TRUE
       IN JSAdd(d.importedQuantity, SumImported(S \ {d}))

\* Mutant of MyImportsRows: no $group stage, one row per document.
MyImportsRowsPerRecord(user) ==
  {[productId |-> d.productId, importedQuantity |-> d.importedQuantity] :
     d \in {x \in imports : x.userEmail = user /\ Live(x.productId)}}

\* $match userEmail, $group by productId, $lookup products, $unwind (a group
\* with no product is dropped), $project.
MyImportsRows(user) ==
  {[productId |-> p, importedQuantity |-> SumImported(ImportsOf(user, p))] :
     p \in {q \in PIDS : Live(q) /\ ImportsOf(user, q) # {}}}

MyImportsAggregate(r) ==
  /\ reqs[r].pc = "op"
  /\ reqs[r].route = "myImports"
  /\ reqs' = [Respond(r, 200, TRUE, "none")
                 EXCEPT ![r].rows = MyImportsRows(reqs[r].user),
                        ![r].acc = @ \cup {"read"}]
  /\ UNCHANGED <<products, imports, db, clients, initialStock>>

\* --------------------------------------------------- POST /products (106-120)
\* Mutant of newProduct: the spread of req.body comes last and its createdBy
\* overwrites the caller's.
newProductBodyLast(body, email) ==
  ProductDoc(body.availableQuantity,
             IF body.createdBy # "absent" THEN body.createdBy ELSE email)

\* { ...req.body, createdBy: req.user.email, createdAt: new Date() }
newProduct(body, email) == ProductDoc(body.availableQuantity, email)

\* insertOne allocates an ObjectId the collection has never held.  PIDS bounds
\* the ids there are: with none left unused the insert is not taken.
PostProduct(r) ==
  /\ reqs[r].pc = "op"
  /\ reqs[r].route = "postProduct"
  /\ \E q \in DOMAIN products : products[q].state = "unused"
  /\ LET p == CHOOSE q \in DOMAIN products :
                 /\ products[q].state = "unused"
                 /\ \A x \in DOMAIN products :
                      products[x].state = "unused" => createdAt(q) <= createdAt(x)
     IN
       /\ products' = [products EXCEPT ![p] = newProduct(reqs[r].patch, reqs[r].user)]
       /\ reqs' = [Respond(r, 200, TRUE, "none")
                      EXCEPT ![r].list = {p}, ![r].acc = @ \cup {"write"}]
       /\ initialStock' = [initialStock EXCEPT ![p] = reqs[r].patch.availableQuantity]
  /\ UNCHANGED <<imports, db, clients>>

\* ------------------------- GET /latest-products (src/unnamed/part_000, 85-102)
\* .limit(6)
LatestLimit == 6

\* The value .sort({ created_at: -1 }) reads from a document.  newProduct
\* writes createdAt and no document has a field created_at: the key is null
\* (0 here) for every document of the collection.
created_at(p) == 0

\* find().sort({ created_at: -1 }).limit(6).toArray(): the LatestLimit first
\* documents of an ordering by descending key.  Documents of equal key come in
\* an order the server does not define.
LatestResults ==
  LET live == {p \in DOMAIN products : Live(p)}
      k == IF Cardinality(live) < LatestLimit THEN Cardinality(live) ELSE LatestLimit
  IN {res \in [1..k -> live] :
        /\ \A i \in 1..k, j \in 1..k : i < j =>
             res[i] # res[j] /\ created_at(res[i]) >= created_at(res[j])
        /\ \A p \in live \ {res[i] : i \in 1..k} :
             \A i \in 1..k : created_at(res[i]) >= created_at(p)}

\* The route is registered on an open connection (part_000, 64-71) and takes
\* no token.
NewLatestRequest == [Idle EXCEPT !.route = "latestProducts", !.pc = "latest"]

LatestProducts(r) ==
  /\ reqs[r].pc = "latest"
  /\ reqs[r].route = "latestProducts"
  /\ \E res \in LatestResults :
       reqs' = [Respond(r, 200, TRUE, "none")
                  EXCEPT ![r].latest = res, ![r].acc = @ \cup {"read"}]
  /\ UNCHANGED <<products, imports, db, clients, initialStock>>

\* ----------------------------------------------------- GET /my-exports (123-132)
MyExports(r) ==
  /\ reqs[r].pc = "op"
  /\ reqs[r].route = "myExports"
  /\ reqs' = [Respond(r, 200, TRUE, "none")
                 EXCEPT ![r].list = {p \in DOMAIN products : Live(p) /\
                                       products[p].createdBy = reqs[r].user},
                        ![r].acc = @ \cup {"read"}]
  /\ UNCHANGED <<products, imports, db, clients, initialStock>>

\* Mutant of OwnedMatch: the filter leaves createdBy out.
OwnedMatchAnyCaller(pid, email) == Live(pid)

\* The filter { _id: new ObjectId(id), createdBy: req.user.email }
OwnedMatch(pid, email) == Live(pid) /\ products[pid].createdBy = email

\* -------------------------------------------------- DELETE /products/:id (135-148)
DeleteProduct(r) ==
  /\ reqs[r].pc = "op"
  /\ reqs[r].route = "deleteProduct"
  /\ products' = IF OwnedMatch(reqs[r].id, reqs[r].user)
                   THEN [products EXCEPT ![reqs[r].id] = NoProduct("deleted")]
                   ELSE products
  /\ reqs' = [Respond(r, 200, OwnedMatch(reqs[r].id, reqs[r].user), "none")
                 EXCEPT ![r].acc = @ \cup {"write"}]
  /\ UNCHANGED <<imports, db, clients, initialStock>>

\* --------------------------------------------------- PATCH /products/:id (151-164)
\* Mutant of ApplySet: the update writes availableQuantity whether or not
\* the body carries it.
ApplySetResetsStock(doc, body) ==
  [doc EXCEPT !.availableQuantity = body.availableQuantity,
              !.createdBy = IF body.createdBy # "absent" THEN body.createdBy ELSE @]

\* { $set: req.body }
ApplySet(doc, body) ==
  [doc EXCEPT !.availableQuantity = IF body.hasQty THEN body.availableQuantity ELSE @,
              !.createdBy = IF body.createdBy # "absent" THEN body.createdBy ELSE @]

PatchProduct(r) ==
  /\ reqs[r].pc = "op"
  /\ reqs[r].route = "patchProduct"
  /\ products' = IF OwnedMatch(reqs[r].id, reqs[r].user)
                   THEN [products EXCEPT ![reqs[r].id] = ApplySet(@, reqs[r].patch)]
                   ELSE products
  /\ reqs' = [Respond(r, 200, OwnedMatch(reqs[r].id, reqs[r].user), "none")
                 EXCEPT ![r].acc = @ \cup {"write"}]
  /\ UNCHANGED <<imports, db, clients, initialStock>>

\* ------------------------------------------------------ GET /health (83-91)
Health(r) ==
  /\ reqs[r].pc = "op"
  /\ reqs[r].route = "health"
  /\ reqs' = Respond(r, 200, TRUE, "none")
  /\ UNCHANGED <<products, imports, db, clients, initialStock>>

\* --------------------------------------------------- GET /products (94-103)
\* find({}).limit(50): the catalogs of the model stay below 50.
GetProducts(r) ==
  /\ reqs[r].pc = "op"
  /\ reqs[r].route = "products"
  /\ reqs' = [Respond(r, 200, TRUE, "none")
                 EXCEPT ![r].list = {p \in DOMAIN products : Live(p)},
                        ![r].acc = @ \cup {"read"}]
  /\ UNCHANGED <<products, imports, db, clients, initialStock>>

\* ----------------------------------------------------- GET /search (289-303)
\* { productName: { $regex: q, $options: 'i' } }: a product is named by its id.
NameMatches(p, q) == p = q

Search(r) ==
  /\ reqs[r].pc = "op"
  /\ reqs[r].route = "search"
  /\ reqs' = [Respond(r, 200, TRUE, "none")
                 EXCEPT ![r].list = {p \in DOMAIN products :
                                       Live(p) /\ NameMatches(p, reqs[r].search)},
                        ![r].acc = @ \cup {"read"}]
  /\ UNCHANGED <<products, imports, db, clients, initialStock>>

\* ------------------------------------------------- a storage call rejects
\* The handler is suspended on client.connect() or on a call on a collection.
\* POST /import-product checks its input before findOne (172); GET /health
\* makes no call after connectDB.
AwaitsStorage(r) ==
  \/ reqs[r].pc \in {"connecting", "findExisting", "writeLedger", "updateStock",
                      "findImport", "withdrawLedger", "withdrawStock"}
  \/ reqs[r].pc = "findProduct" /\ ~ImportInvalid(reqs[r].id, qtyOf(r))
  \/ reqs[r].pc = "op" /\ reqs[r].route # "health"

\* Mutant of StorageFails: connectDB assigns db before it awaits
\* client.connect(), so a failed attempt leaves the handle set.
StorageFailsKeepsHandle(r) ==
  /\ AwaitsStorage(r)
  /\ reqs' = OnError(r)
  /\ db' = (db \/ reqs[r].pc = "connecting")
  /\ UNCHANGED <<products, imports, clients, initialStock>>

\* Mutant of StorageFails: the stock update that rejects has been applied.
StorageFailsAfterApplying(r) ==
  /\ AwaitsStorage(r)
  /\ reqs' = OnError(r)
  /\ products' = IF reqs[r].pc = "updateStock"
                    THEN IncAvailable(reqs[r].id, JSNeg(qtyOf(r)))
                    ELSE IF reqs[r].pc = "withdrawStock"
                           THEN IncAvailable(reqs[r].id, Num(1))
                           ELSE products
  /\ UNCHANGED <<imports, db, clients, initialStock>>

\* The awaited promise rejects (connectDB rethrows, 57): control passes to the
\* catch block of the handler.  A rejected call leaves the collections as
\* they are, and a rejected connect leaves db unset.
StorageFails(r) ==
  /\ AwaitsStorage(r)
  /\ reqs' = OnError(r)
  /\ UNCHANGED <<products, imports, db, clients, initialStock>>

\* ------------------------------------------------------------ requests arrive
\* Slots are taken in order: which slot a request takes is of no consequence.
Arrive(r, kinds) ==
  /\ reqs[r].pc = "idle"
  /\ \A s \in Slots : s < r => reqs[s].pc # "idle"
  /\ \E k \in kinds : reqs' = [reqs EXCEPT ![r] = k]
  /\ UNCHANGED <<products, imports, db, clients, initialStock>>

AllRequests == UNION {RequestsOf(route) : route \in Routes}

\* The reservation flow alone, by verified callers on well-formed ids.
ReservationRequests ==
  {k \in UNION {RequestsOf(route) : route \in ReservationRoutes} :
     k.auth \in Users /\ k.id # "not-an-id"}

\* --------------------------------------------------------------- specifications
\* After construction: db unset, one product of u1 in the catalog, no imports.
Init ==
  /\ \E s \in 1..MaxStock :
       products = [p \in PIDS |-> IF p = "p1" THEN ProductDoc(Num(s), "u1")
                                              ELSE NoDoc]
  /\ imports = {}
  /\ db = FALSE
  /\ clients = 0
  /\ reqs = [r \in 1..MaxReq |-> Idle]
  /\ initialStock = [p \in PIDS |-> products[p].availableQuantity]

\* Any interleaving of the requests at their suspension points.
Arrives == \E r \in Slots : Arrive(r, AllRequests)
VerifiesToken == \E r \in Slots : VerifyToken(r)
EntersHandler == \E r \in Slots : EnterHandler(r)
Connects == \E r \in Slots : ConnectDone(r)
ImportReadsProduct == \E r \in Slots : ImportFindProduct(r)
ImportReadsLedger == \E r \in Slots : ImportFindExisting(r)
ImportWritesLedger == \E r \in Slots : ImportWriteLedger(r)
ImportWritesStock == \E r \in Slots : ImportUpdateStock(r)
WithdrawReadsLedger == \E r \in Slots : WithdrawFindImport(r)
WithdrawWritesLedger == \E r \in Slots : WithdrawWriteLedger(r)
WithdrawWritesStock == \E r \in Slots : WithdrawUpdateStock(r)
ListsImports == \E r \in Slots : MyImportsAggregate(r)
PostsProduct == \E r \in Slots : PostProduct(r)
ListsExports == \E r \in Slots : MyExports(r)
DeletesProduct == \E r \in Slots : DeleteProduct(r)
PatchesProduct == \E r \in Slots : PatchProduct(r)

ReservationNext ==
  \/ VerifiesToken
  \/ EntersHandler
  \/ Connects
  \/ ImportReadsProduct
  \/ ImportReadsLedger
  \/ ImportWritesLedger
  \/ ImportWritesStock
  \/ WithdrawReadsLedger
  \/ WithdrawWritesLedger
  \/ WithdrawWritesStock
  \/ ListsImports

Next ==
  \/ Arrives
  \/ ReservationNext
  \/ PostsProduct
  \/ ListsExports
  \/ DeletesProduct
  \/ PatchesProduct

Spec == Init /\ [][Next]_vars

\* Sequential case: two products in the catalog with any stock, no imports; a
\* request arrives only when no other is in flight.
InitSeq ==
  /\ \E s1 \in 0..MaxStock, s2 \in 0..MaxStock :
       products = [p \in PIDS |-> ProductDoc(Num(IF p = "p1" THEN s1 ELSE s2), "u1")]
  /\ imports = {}
  /\ db = FALSE
  /\ clients = 0
  /\ reqs = [r \in 1..MaxSeq |-> Idle]
  /\ initialStock = [p \in PIDS |-> products[p].availableQuantity]

ArrivesSeq ==
  /\ \A s \in Slots : ~InFlight(s)
  /\ \E r \in Slots : Arrive(r, ReservationRequests)

NextSeq == ArrivesSeq \/ ReservationNext

SpecSeq == InitSeq /\ [][NextSeq]_vars

\* The reservation flow under any interleaving of its requests.
ArrivesAnyTime == \E r \in Slots : Arrive(r, ReservationRequests)

NextFlow == ArrivesAnyTime \/ ReservationNext

InitFlow ==
  /\ \E s1 \in 0..MaxStock, s2 \in 0..MaxStock :
       products = [p \in PIDS |-> ProductDoc(Num(IF p = "p1" THEN s1 ELSE s2), "u1")]
  /\ imports = {}
  /\ db = FALSE
  /\ clients = 0
  /\ reqs = [r \in 1..MaxReq |-> Idle]
  /\ initialStock = [p \in PIDS |-> products[p].availableQuantity]

SpecFlow == InitFlow /\ [][NextFlow]_vars

\* The store after an earlier Import has completed: u1 holds one record of n
\* units of p1, taken out of a stock of s + n.  Requests then interleave freely.
InitHeld ==
  /\ \E s \in 0..MaxStock, n \in 1..MaxQty :
       /\ products = [p \in PIDS |->
                        IF p = "p1" THEN ProductDoc(Num(s), "u1") ELSE NoProduct("unused")]
       /\ imports = {[id |-> MaxReq + 1, userEmail |-> "u1", productId |-> "p1",
                      importedQuantity |-> Num(n)]}
       /\ initialStock = [p \in PIDS |-> IF p = "p1" THEN Num(s + n) ELSE Num(0)]
  /\ db = FALSE
  /\ clients = 0
  /\ reqs = [r \in 1..MaxReq |-> Idle]

SpecHeld == InitHeld /\ [][NextFlow]_vars

\* GET /my-imports over any content of the two collections: up to MaxDocs
\* import documents, several of them possibly of one (userEmail, productId),
\* and products that are in the catalog or were deleted from it.
DocChoices ==
  {NoRec} \cup
  {[id |-> 0, userEmail |-> u, productId |-> p, importedQuantity |-> Num(n)] :
     u \in Users, p \in PIDS, n \in 1..MaxQty}

InitList ==
  /\ \E f \in [1..MaxDocs -> DocChoices] :
       imports = {[f[i] EXCEPT !.id = MaxReq + i] : i \in {j \in 1..MaxDocs : f[j] # NoRec}}
  /\ \E live \in SUBSET PIDS :
       products = [p \in PIDS |-> IF p \in live THEN ProductDoc(Num(0), "u1")
                                                ELSE NoProduct("deleted")]
  /\ db = FALSE
  /\ clients = 0
  /\ reqs = [r \in {1} |-> Idle]
  /\ initialStock = [p \in PIDS |-> Num(0)]

ArrivesList == \E r \in Slots : Arrive(r, RequestsOf("myImports"))

NextList == ArrivesList \/ VerifiesToken \/ EntersHandler \/ Connects \/ ListsImports

SpecList == InitList /\ [][NextList]_vars

\* The catalog after n POST /products, then POST /products and
\* GET /latest-products requests one after the other.
InitLatest ==
  /\ \E n \in 0..LatestLimit :
       products = [p \in CatalogIds |->
                     IF createdAt(p) <= n THEN ProductDoc(Num(1), "u1") ELSE NoDoc]
  /\ imports = {}
  /\ db = FALSE
  /\ clients = 0
  /\ reqs = [r \in 1..MaxReq |-> Idle]
  /\ initialStock = [p \in CatalogIds |-> products[p].availableQuantity]

ArrivesLatest ==
  /\ \A s \in Slots : ~InFlight(s)
  /\ \E r \in Slots : Arrive(r, RequestsOf("postProduct") \cup {NewLatestRequest})

AnswersLatest == \E r \in Slots : LatestProducts(r)

NextLatest ==
  \/ ArrivesLatest
  \/ VerifiesToken
  \/ EntersHandler
  \/ Connects
  \/ PostsProduct
  \/ AnswersLatest

SpecLatest == InitLatest /\ [][NextLatest]_vars

\* Every route of index.js, one request after the other, where every storage
\* call may reject.  The event loop resumes a handler once the promise it
\* awaits has settled.
FailIds == {CatalogSeq[i] : i \in 1..MaxReq + 1}

InitFail ==
  /\ \E s \in 1..MaxStock :
       products = [p \in FailIds |-> IF p = "p1" THEN ProductDoc(Num(s), "u1")
                                                 ELSE NoDoc]
  /\ imports = {}
  /\ db = FALSE
  /\ clients = 0
  /\ reqs = [r \in 1..MaxReq |-> Idle]
  /\ initialStock = [p \in FailIds |-> products[p].availableQuantity]

ArrivesFail ==
  /\ \A s \in Slots : ~InFlight(s)
  /\ \E r \in Slots : Arrive(r, AllRequests \cup PublicRequests)

AnswersHealth == \E r \in Slots : Health(r)
ListsProducts == \E r \in Slots : GetProducts(r)
Searches == \E r \in Slots : Search(r)
Fails == \E r \in Slots : StorageFails(r)

StepsFail ==
  \/ ReservationNext
  \/ PostsProduct
  \/ ListsExports
  \/ DeletesProduct
  \/ PatchesProduct
  \/ AnswersHealth
  \/ ListsProducts
  \/ Searches
  \/ Fails

NextFail == ArrivesFail \/ StepsFail

SpecFail == InitFail /\ [][NextFail]_vars /\ WF_vars(StepsFail)

Quiescent == \A r \in Slots : ~InFlight(r)
RecordsOf(p) == {d \in imports : d.productId = p}

\* C1 (SpecSeq).  Conservation, sequential case: whenever no request is in
\* flight, for every product the sum of importedQuantity over its
\* ImportRecords plus its availableQuantity equals its initial stock.
ConservationSeq ==
  Quiescent =>
    \A p \in PIDS :
      Live(p) =>
        JSAdd(SumImported(RecordsOf(p)), products[p].availableQuantity)
          = initialStock[p]

\* The quantity every Import so far has asked for converts to a number.
NumericImports ==
  \A r \in Slots :
    reqs[r].route = "import" => IsNum(Number(importQuantityOf(reqs[r].qty)))

\* Conservation in the sequential case holds as long as no Import carried an
\* importQuantity that converts to NaN.
ConservationSeqNumeric == NumericImports => ConservationSeq

\* C2 (Spec).  Uniqueness of the ledger key: the imports collection holds at
\* most one ImportRecord per (userEmail, productId) pair.
UniqueLedgerKey ==
  \A d1 \in imports, d2 \in imports :
    (d1.userEmail = d2.userEmail /\ d1.productId = d2.productId) => d1 = d2

\* C3 (Spec).  Stock never negative: no product's availableQuantity is below 0.
StockNeverNegative ==
  \A p \in PIDS : Live(p) => ~JSLess(products[p].availableQuantity, Num(0))

\* Request r has taken the step.
Acts(r) == reqs'[r] # reqs[r]

\* C4 (Spec).  Stock guard: the step in which an Import reads a product whose
\* availableQuantity is below the quantity asked for answers 400 and ends the
\* request, which has written nothing; products and imports are unchanged.
StockGuard ==
  [][\A r \in Slots :
       ( /\ Acts(r)
         /\ reqs[r].pc = "findProduct"
         /\ reqs[r].id \in PIDS
         /\ products[reqs[r].id].state = "live"
         /\ JSGreater(Number(importQuantityOf(reqs[r].qty)),
                      products[reqs[r].id].availableQuantity) )
       => /\ reqs'[r].pc = "done"
          /\ reqs'[r].status = 400
          /\ "write" \notin reqs'[r].acc
          /\ products' = products
          /\ imports' = imports]_vars

\* An Import asked for more than the stock it read and has been answered.
StockGuardWitness ==
  \E r \in Slots :
    /\ reqs[r].route = "import"
    /\ reqs[r].pc = "done"
    /\ reqs[r].status = 400
    /\ reqs[r].product.state = "live"
    /\ JSGreater(Number(importQuantityOf(reqs[r].qty)),
                 reqs[r].product.availableQuantity)

\* Slot r holds a completed Import of a numeric quantity q >= 1.
ImportOf(r, u, p, q) ==
  /\ reqs[r].route = "import"
  /\ reqs[r].pc = "done"
  /\ reqs[r].user = u
  /\ reqs[r].id = p
  /\ Number(importQuantityOf(reqs[r].qty)) = Num(q)

\* No request has arrived after the one in slot r.
Latest(r) == \A s \in Slots : s > r => reqs[s].pc = "idle"

\* In slots r and r+1, u imported q1 and then q2 of p, which had no record of
\* u and a stock of at least q1 + q2 when the first Import read them.
TwoImports(r, u, p, q1, q2) ==
  /\ r + 1 \in Slots
  /\ ImportOf(r, u, p, q1)
  /\ ImportOf(r + 1, u, p, q2)
  /\ Latest(r + 1)
  /\ reqs[r].product.state = "live"
  /\ IsNum(reqs[r].product.availableQuantity)
  /\ q1 + q2 <= reqs[r].product.availableQuantity.v
  /\ reqs[r].existing = NoRec

Merged(r, u, p, q1, q2) ==
  /\ reqs[r].status = 200
  /\ reqs[r + 1].status = 200
  /\ \E d \in imports :
       /\ ImportsOf(u, p) = {d}
       /\ d.importedQuantity = Num(q1 + q2)
  /\ products[p].availableQuantity
       = Num(reqs[r].product.availableQuantity.v - (q1 + q2))

\* C5 (SpecSeq).  Merge: two Imports of q1 and q2 by one user for one product,
\* run one after the other with no prior record and enough stock, leave
\* exactly one ImportRecord, of q1 + q2, and the stock reduced by q1 + q2.
MergeTwoImports ==
  \A r \in Slots, u \in Users, p \in PIDS, q1 \in 1..MaxQty, q2 \in 1..MaxQty :
    TwoImports(r, u, p, q1, q2) => Merged(r, u, p, q1, q2)

MergeTwoImportsWitness ==
  \E r \in Slots, u \in Users, p \in PIDS, q1 \in 1..MaxQty, q2 \in 1..MaxQty :
    TwoImports(r, u, p, q1, q2) /\ Merged(r, u, p, q1, q2)

\* Request r is a Withdraw that has read a record of n >= 2.
WithdrawsFromSeveral(r) ==
  /\ reqs[r].route = "withdraw"
  /\ reqs[r].existing # NoRec
  /\ IsNum(reqs[r].existing.importedQuantity)
  /\ reqs[r].existing.importedQuantity.v >= 2

\* C6 (SpecSeq).  Withdraw fixed decrement: a Withdraw that found a record of
\* n >= 2 leaves that record in place with n - 1 (its ledger write changes no
\* other record) and then adds exactly 1 to the product's availableQuantity,
\* and is answered 200.
WithdrawFixedDecrement ==
  [][\A r \in Slots :
       (Acts(r) /\ WithdrawsFromSeveral(r)) =>
         /\ reqs[r].pc = "withdrawLedger" =>
              /\ imports' =
                   (imports \ {reqs[r].existing}) \cup
                     {[reqs[r].existing EXCEPT !.importedQuantity =
                         Num(reqs[r].existing.importedQuantity.v - 1)]}
              /\ products' = products
         /\ reqs[r].pc = "withdrawStock" =>
              /\ products'[reqs[r].id].availableQuantity
                   = JSAdd(products[reqs[r].id].availableQuantity, Num(1))
              /\ \A p \in PIDS \ {reqs[r].id} : products'[p] = products[p]
              /\ imports' = imports
              /\ \E d \in imports :
                   /\ d.id = reqs[r].existing.id
                   /\ d.importedQuantity
                        = Num(reqs[r].existing.importedQuantity.v - 1)
              /\ reqs'[r].status = 200]_vars

\* A Withdraw from a record of 2 or more has completed on a numeric stock.
WithdrawFixedDecrementWitness ==
  \E r \in Slots :
    /\ WithdrawsFromSeveral(r)
    /\ reqs[r].pc = "done"
    /\ reqs[r].status = 200
    /\ Latest(r)
    /\ IsNum(products[reqs[r].id].availableQuantity)
    /\ products[reqs[r].id].availableQuantity.v >= 1

\* Slot r holds a completed Withdraw that found a record of exactly 1.
WithdrewLast(r) ==
  /\ reqs[r].route = "withdraw"
  /\ reqs[r].pc = "done"
  /\ reqs[r].existing # NoRec
  /\ reqs[r].existing.importedQuantity = Num(1)

\* The request after slot r is a completed ListMine of the same user.
ThenListsMine(r) ==
  /\ r + 1 \in Slots
  /\ reqs[r + 1].route = "myImports"
  /\ reqs[r + 1].pc = "done"
  /\ reqs[r + 1].user = reqs[r].user

\* C7 (SpecSeq).  Withdraw exhaustion: a Withdraw that found the record of
\* (u, P) with importedQuantity 1 is answered 200 and the record is gone; a
\* ListMine of u that follows it has no row for P.
WithdrawExhaustion ==
  \A r \in Slots :
    WithdrewLast(r) =>
      /\ reqs[r].status = 200
      /\ \A d \in imports : d.id # reqs[r].existing.id
      /\ ThenListsMine(r) =>
           /\ reqs[r + 1].status = 200
           /\ \A row \in reqs[r + 1].rows : row.productId # reqs[r].id

WithdrawExhaustionWitness ==
  \E r \in Slots : WithdrewLast(r) /\ ThenListsMine(r)

IdRoutes == {"patchProduct", "deleteProduct", "import", "withdraw"}

\* C8 (Spec).  Malformed id: a verified request with a malformed product id
\* on an id-taking route makes no storage access, not even a connection
\* attempt, and is answered 400.
MalformedIdNoStorage ==
  \A r \in Slots :
    ( /\ reqs[r].route \in IdRoutes
      /\ reqs[r].id = "not-an-id"
      /\ reqs[r].pc \notin {"idle", "auth"}
      /\ reqs[r].user \in Users )
    => /\ reqs[r].acc = {}
       /\ reqs[r].pc = "done" => reqs[r].status = 400

\* The three routes that check the id before connectDB do satisfy it.
MalformedIdNoStorageElsewhere ==
  \A r \in Slots :
    ( /\ reqs[r].route \in IdRoutes \ {"import"}
      /\ reqs[r].id = "not-an-id"
      /\ reqs[r].pc \notin {"idle", "auth"}
      /\ reqs[r].user \in Users )
    => /\ reqs[r].acc = {}
       /\ reqs[r].pc \in {"handler", "done"}
       /\ reqs[r].pc = "done" => reqs[r].status = 400

\* The request in slot r carries no header, a header that is not a bearer
\* token, or a token the identity provider rejects.
Unauthorized(r) == reqs[r].auth \in {"none", "basic", "rejected"}

\* C9 (Spec).  Auth short-circuit: a request that is not authorized never
\* leaves verifyToken except by a 401 response, makes no storage access, and
\* no step it takes changes the collections or the connection.
AuthShortCircuit ==
  /\ [](\A r \in Slots :
          (reqs[r].pc # "idle" /\ Unauthorized(r)) =>
            /\ reqs[r].pc \in {"auth", "done"}
            /\ reqs[r].pc = "done" => reqs[r].status = 401 /\ ~reqs[r].success
            /\ reqs[r].acc = {})
  /\ [][\A r \in Slots :
          (Acts(r) /\ reqs[r].pc # "idle" /\ Unauthorized(r)) =>
            UNCHANGED <<products, imports, db, clients>>]_vars

\* Every kind of unauthorized request has been answered on some route.
AuthShortCircuitWitness ==
  \E r \in Slots, s \in Slots :
    /\ reqs[r].pc = "done" /\ reqs[r].auth = "rejected"
    /\ reqs[r].route = "import" /\ reqs[r].status = 401
    /\ reqs[s].pc = "done" /\ reqs[s].auth \in {"none", "basic"}
    /\ reqs[s].route = "deleteProduct" /\ reqs[s].status = 401

\* The product named by request r is in the catalog and r's caller owns it.
CallerOwns(r) ==
  /\ reqs[r].id \in PIDS
  /\ products[reqs[r].id].state = "live"
  /\ products[reqs[r].id].createdBy = reqs[r].user

\* C10 (Spec).  Owner-only mutation: a step of a PATCH or DELETE on
\* /products/:id changes the products collection only if it is the storage
\* call and the caller owns the product; the response reports success exactly
\* when that was so, and an owned product named by DELETE is removed.
OwnerOnlyMutation ==
  [][\A r \in Slots :
       (Acts(r) /\ reqs[r].route \in {"patchProduct", "deleteProduct"}) =>
         LET matched == reqs[r].pc = "op" /\ CallerOwns(r) IN
           /\ ~matched => products' = products
           /\ reqs'[r].pc = "done" => (reqs'[r].success <=> matched)
           /\ (matched /\ reqs[r].route = "deleteProduct") =>
                products'[reqs[r].id].state = "deleted"
           /\ (matched /\ reqs[r].route = "patchProduct") =>
                products'[reqs[r].id].state = "live"
           /\ \A p \in PIDS \ {reqs[r].id} : products'[p] = products[p]]_vars

\* A caller who is not the owner has asked to delete a product that is still
\* in the catalog and has been told success:false; an owner has patched one.
OwnerOnlyMutationWitness ==
  \E r \in Slots, s \in Slots :
    /\ reqs[r].route = "deleteProduct" /\ reqs[r].pc = "done"
    /\ reqs[r].status = 200 /\ ~reqs[r].success
    /\ products[reqs[r].id].state = "live"
    /\ reqs[r].user \in Users \ {products[reqs[r].id].createdBy}
    /\ reqs[s].route = "patchProduct" /\ reqs[s].pc = "done"
    /\ reqs[s].success

\* C11 (Spec).  Memoized connection: at most one MongoClient is ever created
\* and connected.
MemoizedConnection == clients <= 1

\* The product an Import named was not in the catalog when the Import read it.
ImportOfAbsent(r) ==
  /\ reqs[r].route = "import"
  /\ reqs[r].pc = "done"
  /\ "read" \in reqs[r].acc
  /\ reqs[r].product.state # "live"

\* C12 (Spec).  Import of an absent product: an Import of a well-formed id that
\* matches no product is answered 404 and has written nothing.
ImportAbsentNotFound ==
  \A r \in Slots :
    ImportOfAbsent(r) => reqs[r].status = 404 /\ "write" \notin reqs[r].acc

\* What the handler does there: 400 with the message of the stock guard, and
\* no write.
ImportAbsentAnswered ==
  \A r \in Slots :
    ImportOfAbsent(r) =>
      /\ reqs[r].status = 400
      /\ reqs[r].message = "Stock insufficient"
      /\ "write" \notin reqs[r].acc

\* C13 (SpecFlow).  Withdraw without a record: the step in which a Withdraw
\* of u for a well-formed id finds no ImportRecord of u answers 404 and ends
\* the request, which has written nothing; both collections are unchanged.
WithdrawWithoutRecord ==
  [][\A r \in Slots :
       ( /\ Acts(r)
         /\ reqs[r].pc = "findImport"
         /\ \A d \in imports :
              ~(d.userEmail = reqs[r].user /\ d.productId = reqs[r].id) )
       => /\ reqs'[r].pc = "done"
          /\ reqs'[r].status = 404
          /\ "write" \notin reqs'[r].acc
          /\ products' = products
          /\ imports' = imports]_vars

\* A Withdraw was answered 404 while another user holds a record of the product.
WithdrawWithoutRecordWitness ==
  \E r \in Slots :
    /\ reqs[r].route = "withdraw"
    /\ reqs[r].pc = "done"
    /\ reqs[r].status = 404
    /\ \E d \in imports : d.productId = reqs[r].id /\ d.userEmail # reqs[r].user

\* C14 (Spec).  Quantity validation: an Import whose importQuantity is 0 or
\* does not convert to a number reads and writes nothing and is answered 400.
QuantityValidation ==
  \A r \in Slots :
    ( /\ reqs[r].route = "import"
      /\ reqs[r].user \in Users
      /\ reqs[r].qty \in {JNumber(0), JText} )
    => /\ reqs[r].acc \cap {"read", "write"} = {}
       /\ reqs[r].pc = "done" => reqs[r].status = 400

\* It does hold of the numbers below 1.
QuantityValidationOfNumbers ==
  \A r \in Slots :
    ( /\ reqs[r].route = "import"
      /\ reqs[r].user \in Users
      /\ reqs[r].qty = JNumber(0) )
    => /\ reqs[r].acc \cap {"read", "write"} = {}
       /\ reqs[r].pc = "done" => reqs[r].status = 400

\* C15 (SpecHeld).  Record quantity bound: as long as every Import asked for a
\* number, every ImportRecord in the imports collection has an
\* importedQuantity that is a number >= 1.
RecordQuantityBound ==
  NumericImports =>
    \A d \in imports : IsNum(d.importedQuantity) /\ d.importedQuantity.v >= 1

\* GET /my-imports of slot r was answered with its rows.
Listed(r) ==
  /\ reqs[r].route = "myImports"
  /\ reqs[r].pc = "done"
  /\ reqs[r].status = 200

MineOf(r, p) == {d \in imports : d.userEmail = reqs[r].user /\ d.productId = p}

RECURSIVE TotalOf(_)
TotalOf(S) ==
  IF S = {} THEN 0
  ELSE LET d == CHOOSE x \in S : TRUE
       IN d.importedQuantity.v + TotalOf(S \ {d})

\* The rows are one per product of P, each with the sum over the caller's
\* records of that product.
RowsAre(r, P) ==
  /\ {row.productId : row \in reqs[r].rows} = P
  /\ Cardinality(reqs[r].rows) = Cardinality(P)
  /\ \A row \in reqs[r].rows :
       row.importedQuantity = Num(TotalOf(MineOf(r, row.productId)))

ImportThenWithdraws(r, u, p, q, k) ==
  /\ ImportOf(r, u, p, q)
  /\ reqs[r].existing = NoRec
  /\ reqs[r].product.state = "live"
  /\ IsNum(reqs[r].product.availableQuantity)
  /\ q <= reqs[r].product.availableQuantity.v
  /\ r + k \in Slots
  /\ \A j \in 1..k :
       /\ reqs[r + j].route = "withdraw"
       /\ reqs[r + j].pc = "done"
       /\ reqs[r + j].user = u
       /\ reqs[r + j].id = p
  /\ Latest(r + k)

\* Both collections are as the Import of slot r found them.
AsBeforeImport(r, u, p) ==
  /\ \A d \in imports : ~(d.userEmail = u /\ d.productId = p)
  /\ products[p] = reqs[r].product
  /\ r = 1 => /\ imports = {}
              /\ \A x \in PIDS : products[x].availableQuantity = initialStock[x]

\* C17 (SpecSeq).  Import/Withdraw round trip: after an Import of q by a user
\* with no record of P and k <= q Withdraws, all answered 200, the record
\* holds q - k and the stock is q - k short of what it was while k < q; the
\* q-th Withdraw deletes the record and both collections are as before.
ImportWithdrawRoundTrip ==
  \A r \in Slots, u \in Users, p \in PIDS, q \in 1..MaxQty, k \in 0..MaxQty :
    (k <= q /\ ImportThenWithdraws(r, u, p, q, k)) =>
      /\ \A j \in 0..k : reqs[r + j].status = 200
      /\ IF k < q
           THEN /\ \E d \in imports :
                     /\ {x \in imports : x.userEmail = u /\ x.productId = p} = {d}
                     /\ d.importedQuantity = Num(q - k)
                /\ products[p].availableQuantity
                     = Num(reqs[r].product.availableQuantity.v - (q - k))
           ELSE AsBeforeImport(r, u, p)

\* An Import of 2 by the first request, then two Withdraws.
ImportWithdrawRoundTripWitness ==
  \E u \in Users, p \in PIDS :
    ImportThenWithdraws(1, u, p, 2, 2) /\ AsBeforeImport(1, u, p)

\* GET /latest-products of slot r was answered and nothing has arrived since.
LatestAnswered(r) ==
  /\ reqs[r].route = "latestProducts"
  /\ reqs[r].pc = "done"
  /\ reqs[r].status = 200
  /\ Latest(r)

\* C18 (SpecLatest).  Latest products: GET /latest-products returns at most 6
\* products, they are those with the greatest creation times stamped by
\* POST /products, and they are ordered newest first.
LatestNewestFirst ==
  \A r \in Slots :
    LatestAnswered(r) =>
      LET res == reqs[r].latest
          got == {res[i] : i \in 1..Len(res)}
      IN /\ Len(res) <= LatestLimit
         /\ \A i \in 1..Len(res), j \in 1..Len(res) :
              i < j => createdAt(res[i]) > createdAt(res[j])
         /\ \A p \in DOMAIN products :
              (Live(p) /\ p \notin got) =>
                /\ Len(res) = LatestLimit
                /\ \A x \in got : createdAt(x) > createdAt(p)

\* What does hold of the answer: at most 6 products of the catalog, none
\* twice, and all of the catalog when it has no more than 6.
LatestAtMostSix ==
  \A r \in Slots :
    LatestAnswered(r) =>
      LET res == reqs[r].latest
          got == {res[i] : i \in 1..Len(res)}
      IN /\ Len(res) <= LatestLimit
         /\ Cardinality(got) = Len(res)
         /\ \A p \in got : Live(p)
         /\ Len(res) < LatestLimit => got = {p \in DOMAIN products : Live(p)}

\* Slot r holds an answered POST /products; reqs[r].list is the id inserted.
Posted(r) ==
  /\ reqs[r].route = "postProduct"
  /\ reqs[r].pc = "done"
  /\ reqs[r].status = 200

\* No PATCH or DELETE of a product has arrived.
NoCatalogChange ==
  \A s \in Slots : reqs[s].route \notin {"patchProduct", "deleteProduct"}

\* C19 (Spec).  Owner stamping: the step of POST /products that inserts puts a
\* new product in the catalog whose createdBy is the caller's verified email,
\* whatever the body carries; and as long as no PATCH or DELETE has arrived,
\* a GET /my-exports lists a product that a POST /products has created if and
\* only if its caller is the caller of that POST.
OwnerStamping ==
  [][\A r \in Slots :
       (Acts(r) /\ reqs[r].pc = "op") =>
         /\ reqs[r].route = "postProduct" =>
              /\ reqs[r].user \in Users
              /\ \E p \in DOMAIN products :
                   /\ reqs'[r].list = {p}
                   /\ ~Live(p)
                   /\ products'[p].state = "live"
                   /\ products'[p].createdBy = reqs[r].user
         /\ (reqs[r].route = "myExports" /\ NoCatalogChange) =>
              \A r1 \in Slots :
                Posted(r1) =>
                  \A p \in reqs[r1].list :
                    p \in reqs'[r].list <=> reqs[r].user = reqs[r1].user]_vars

\* A product posted with another user's email as createdBy in the body is
\* listed by the poster's GET /my-exports.
OwnerStampingWitness ==
  \E r1 \in Slots, r \in Slots :
    /\ Posted(r1)
    /\ reqs[r1].patch.createdBy \in Users \ {reqs[r1].user}
    /\ reqs[r].route = "myExports"
    /\ reqs[r].pc = "done"
    /\ reqs[r].user = reqs[r1].user
    /\ reqs[r1].list \subseteq reqs[r].list

\* A request whose storage step failed has been answered, once, with 500.
FailedAnswered500 ==
  \A r \in Slots :
    "failed" \in reqs[r].acc =>
      reqs[r].pc = "done" /\ reqs[r].status = 500 /\ reqs[r].sent = 1

\* A request has no response while it is in flight and one from then on.
AnsweredOnce ==
  \A r \in Slots :
    /\ reqs[r].sent <= 1
    /\ reqs[r].pc = "done" <=> reqs[r].sent = 1

\* C20 (SpecFail).  Failure propagation: on every route, a request whose
\* storage step (connection, read or write) fails is answered with status
\* 500; every request that has arrived is eventually answered, and no
\* request is ever answered twice.
FailurePropagation ==
  /\ [](FailedAnswered500 /\ AnsweredOnce)
  /\ \A r \in 1..MaxReq : (reqs[r].pc # "idle") ~> (reqs[r].pc = "done")

\* A POST /import-product answered 500 after its ledger write, and a
\* GET /health answered 500.
FailurePropagationWitness ==
  \E r1 \in Slots, r2 \in Slots :
    /\ reqs[r1].route = "import"
    /\ {"write", "failed"} \subseteq reqs[r1].acc
    /\ reqs[r1].status = 500
    /\ reqs[r2].route = "health"
    /\ reqs[r2].status = 500

\* Request r has made its ledger write and its stock update was rejected.
StockUpdateFailed(r) == {"write", "failed"} \subseteq reqs[r].acc

\* The sum over the records of p plus the stock of p, less the initial stock.
Surplus(p) ==
  TotalOf(RecordsOf(p)) + products[p].availableQuantity.v - initialStock[p].v

\* C21 (SpecFail).  No compensation on partial failure: an Import of q, the
\* first request, whose stock update fails after its ledger write is
\* answered 500, its record of q is kept and the stock is untouched, so the
\* records and the stock of the product exceed its initial stock by q; a
\* Withdraw that follows a successful first Import of q and fails at its
\* stock update is answered 500, the record holds q - 1 (it is deleted when
\* q = 1), and records plus stock fall short of the initial stock by 1.
NoCompensation ==
  \A u \in Users, p \in PIDS, q \in 1..MaxQty :
    /\ (ImportOf(1, u, p, q) /\ StockUpdateFailed(1) /\ Latest(1)) =>
         /\ reqs[1].status = 500
         /\ imports = {[id |-> 1, userEmail |-> u, productId |-> p,
                        importedQuantity |-> Num(q)]}
         /\ products[p].availableQuantity = initialStock[p]
         /\ Surplus(p) = q
    /\ ( /\ ImportOf(1, u, p, q) /\ reqs[1].status = 200
         /\ reqs[2].route = "withdraw" /\ reqs[2].pc = "done"
         /\ reqs[2].user = u /\ reqs[2].id = p
         /\ StockUpdateFailed(2) ) =>
         /\ reqs[2].status = 500
         /\ imports = IF q = 1 THEN {}
                       ELSE {[id |-> 1, userEmail |-> u, productId |-> p,
                              importedQuantity |-> Num(q - 1)]}
         /\ products[p].availableQuantity = Num(initialStock[p].v - q)
         /\ Surplus(p) = 0 - 1

\* Both cases: an Import of 2 left half done, and a Withdraw left half done
\* after an Import of 2.
NoCompensationWitness ==
  \E u \in Users, p \in PIDS :
    /\ ImportOf(1, u, p, 2)
    /\ \/ StockUpdateFailed(1) /\ Latest(1)
       \/ /\ reqs[1].status = 200
          /\ reqs[2].route = "withdraw" /\ reqs[2].pc = "done"
          /\ reqs[2].user = u /\ reqs[2].id = p
          /\ StockUpdateFailed(2)

\* C22 (SpecHeld).  Conservation under concurrency: under any interleaving of
\* Import and Withdraw requests with numeric quantities, whenever no request
\* is in flight, for every product the sum of importedQuantity over its
\* ImportRecords plus its availableQuantity equals its initial stock.
ConservationConcurrent ==
  (Quiescent /\ NumericImports) =>
    \A p \in PIDS :
      Live(p) =>
        /\ IsNum(products[p].availableQuantity)
        /\ Surplus(p) = 0

\* The step changes the availableQuantity of p, which stays in the catalog.
StockChanges(p) ==
  /\ Live(p)
  /\ products'[p].state = "live"
  /\ products'[p].availableQuantity # products[p].availableQuantity

\* The step is the stock update of an Import of p (less the quantity asked
\* for) or of a Withdraw of p (plus 1).
ReservationStockUpdate(p) ==
  \E r \in Slots :
    /\ Acts(r)
    /\ reqs[r].id = p
    /\ reqs'[r].status = 200
    /\ \/ /\ reqs[r].pc = "updateStock"
          /\ products'[p].availableQuantity
               = JSAdd(products[p].availableQuantity, JSNeg(qtyOf(r)))
       \/ /\ reqs[r].pc = "withdrawStock"
          /\ products'[p].availableQuantity
               = JSAdd(products[p].availableQuantity, Num(1))

\* C23 as stated (Spec).  Stock changes only through the reservation flow:
\* a step that changes the availableQuantity of a product that stays in the
\* catalog is the stock update of a successful Import or Withdraw of it.
StockOnlyByReservation ==
  [][\A p \in DOMAIN products : StockChanges(p) => ReservationStockUpdate(p)]_vars

\* C23 (Spec).  A step that changes the availableQuantity of a
\* product that stays in the catalog is the stock update of a successful
\* Import or Withdraw of that product, or the update of a PATCH /products/:id
\* of that product whose body carries availableQuantity.
StockOnlyByReservationOrPatch ==
  [][\A p \in DOMAIN products :
       StockChanges(p) =>
         \/ ReservationStockUpdate(p)
         \/ \E r \in Slots :
              /\ Acts(r)
              /\ reqs[r].route = "patchProduct"
              /\ reqs[r].id = p
              /\ reqs[r].patch.hasQty]_vars

\* An owner's PATCH with availableQuantity in its body has set the stock of a
\* product to another value than the one it was created with.
StockOnlyByReservationOrPatchWitness ==
  \E r \in Slots :
    /\ reqs[r].route = "patchProduct"
    /\ reqs[r].pc = "done"
    /\ reqs[r].success
    /\ reqs[r].patch.hasQty
    /\ Live(reqs[r].id)
    /\ products[reqs[r].id].availableQuantity = reqs[r].patch.availableQuantity
    /\ products[reqs[r].id].availableQuantity # initialStock[reqs[r].id]

\* C24 (Spec).  Referential integrity of the ledger: every ImportRecord's
\* productId is the id of a product in the products collection.
LedgerRefersToCatalog ==
  \A d \in imports : Live(d.productId)

\* C25 (SpecFail).  Connection failure is not memoized: the step in which a
\* request's connection attempt fails answers it with 500 and leaves the
\* shared handle unset and no client connected; a handler that goes on past
\* its entry while the handle is unset makes a connection attempt of its
\* own; and an attempt that succeeds sets the handle and lets the handler
\* continue with its first storage call.
ConnectionFailureNotMemoized ==
  [][\A r \in Slots :
       Acts(r) =>
         /\ (reqs[r].pc = "connecting" /\ "failed" \in reqs'[r].acc) =>
              /\ reqs'[r].pc = "done"
              /\ reqs'[r].status = 500
              /\ ~db'
              /\ clients' = clients
         /\ (reqs[r].pc = "handler" /\ ~db /\ reqs'[r].pc # "done") =>
              /\ reqs'[r].pc = "connecting"
              /\ "connect" \in reqs'[r].acc
         /\ (reqs[r].pc = "connecting" /\ "failed" \notin reqs'[r].acc) =>
              /\ db'
              /\ clients' = clients + 1
              /\ reqs'[r].pc = AfterConnect(reqs[r].route)]_vars

\* The first request was answered 500 on its failed connection attempt, the
\* second one made the one attempt that succeeded and was answered 200 after
\* reading from storage.
ConnectionFailureNotMemoizedWitness ==
  /\ reqs[1].acc = {"connect", "failed"}
  /\ reqs[1].status = 500
  /\ {"connect", "read"} \subseteq reqs[2].acc
  /\ reqs[2].status = 200
  /\ clients = 1
  /\ db
====
